---- MODULE Spec2Model ----
(***************************************************************************)
(* The fallback orchestration layer of the AI product council backend:     *)
(* FallbackOrchestrator (app/fallback_orchestrator.py), the strategies it   *)
(* selects among (app/fallback_ai.py), the response model they build        *)
(* (app/models.py) and the primary closure of the agent wrapper             *)
(* (app/agents/base_agent.py).                                              *)
(*                                                                          *)
(* Concurrency is asyncio's: a call runs without interruption from one      *)
(* await that really suspends to the next.  The awaits that suspend are the *)
(* primary operation (line 133) and a strategy that talks to the network    *)
(* (line 167, the OpenAI strategy, alone or inside the hybrid); the rule-   *)
(* based and cached strategies and the emergency synthesis contain no       *)
(* await, so they run inside the step that reaches them.                    *)
(*                                                                          *)
(* Numbers: confidence scores are fixed-point, in units of 1/10000; time is *)
(* in seconds.  Text: a message or an idea is the set of vocabulary words   *)
(* its lower-cased text contains (all the code ever asks of it); a          *)
(* reasoning string is the sequence of its parts, so that a prefix is a     *)
(* first element.                                                           *)
(***************************************************************************)
EXTENDS Integers, Sequences, FiniteSets, TLC

\* ------------------------------------------------------------------ bounds
\* Number of execute_with_fallback calls that can be in flight together.
NumCalls == 2
\* Number of clock advances of one error window each that a run may make.
MaxTicks == 2
\* Cap on total_attempts of one strategy's usage statistics.
MaxAttempts == 2

\* ------------------------------------------------------- program constants
PRIMARY == "primary"
FALLBACK == "fallback"
DEGRADED == "degraded"
EMERGENCY == "emergency"
FallbackState == {PRIMARY, FALLBACK, DEGRADED, EMERGENCY}

OPENAI == "openai"
LOCAL_LLM == "local_llm"
RULE_BASED == "rule_based"
CACHED_RESPONSES == "cached_responses"
HYBRID == "hybrid"
FallbackStrategy == {OPENAI, LOCAL_LLM, RULE_BASED, CACHED_RESPONSES, HYBRID}

\* FALLBACK_ORDER with its first two entries exchanged.
FALLBACK_ORDER_rule_based_first ==
    <<RULE_BASED, OPENAI, CACHED_RESPONSES, HYBRID>>

FALLBACK_ORDER == <<OPENAI, RULE_BASED, CACHED_RESPONSES, HYBRID>>

AgentType ==
    {"product_manager", "engineer", "designer", "market_researcher",
     "risk_analyst", "customer_researcher"}

\* The agents in the order CriticAIOrchestrator holds them.
AgentOrder ==
    <<"market_researcher", "customer_researcher", "product_manager",
      "risk_analyst", "designer", "engineer">>

\* str(member) for a member of AgentType: the enum mixes in str but keeps
\* Enum.__str__, which gives the class name and the member's name.
__str__ ==
    [member \in AgentType |->
        CASE member = "product_manager" -> "AgentType.PRODUCT_MANAGER"
          [] member = "engineer" -> "AgentType.ENGINEER"
          [] member = "designer" -> "AgentType.DESIGNER"
          [] member = "market_researcher" -> "AgentType.MARKET_RESEARCHER"
          [] member = "risk_analyst" -> "AgentType.RISK_ANALYST"
          [] member = "customer_researcher" -> "AgentType.CUSTOMER_RESEARCHER"]

\* The strings execute_with_fallback is given as agent_type.
RoleArguments == AgentType \cup {__str__[member] : member \in AgentType}

api_error_threshold == 3
ErrorWindow == 60
confidence_penalty == 2000
max_sources == 3
EMERGENCY_CONFIDENCE == 1000
FALLBACK_MARKER == "[FALLBACK]"

None == "None"
\* The value of the error parameter when should_use_fallback is called
\* without one (its default).
NoError == {"<no error>"}

\* What one lower-cased error message can contain of the vocabulary
\* should_use_fallback looks for.
ErrorMessages ==
    {{}, {"rate limit"}, {"quota"}, {"timeout"}, {"connection"},
     {"rate limit", "timeout"}}

\* Product ideas, by the category keywords their lower-cased text contains.
Ideas == {{}, {"app"}}

\* A caller is an agent: it calls execute_with_fallback with its role
\* identifier, or BaseAgent.analyze, which calls it with str(self.agent_type).
Direct(role) == [via |-> "execute_with_fallback", role |-> role]

Wrapped(role) == [via |-> "analyze", role |-> role]

Handed(c) == IF c.via = "analyze" THEN __str__[c.role] ELSE c.role

CallIds == {Direct(AgentOrder[i]) : i \in 1..NumCalls}

VARIABLES
    state,                \* FallbackOrchestrator.state
    error_count,          \* FallbackOrchestrator.error_count
    last_error_time,      \* FallbackOrchestrator.last_error_time
    fallback_usage_stats, \* FallbackOrchestrator.fallback_usage_stats
    fallback_methods,     \* keys of FallbackOrchestrator.fallback_methods
    client,               \* OpenAIFallback.client is not None
    hybrid_methods,       \* HybridFallback.fallback_methods
    now,                  \* time.time()
    calls,                \* the execute_with_fallback calls in flight
    result                \* what the step just taken handed a caller, if any

vars ==
    <<state, error_count, last_error_time, fallback_usage_stats,
      fallback_methods, client, hybrid_methods, now, calls, result>>

registry == <<fallback_methods, client, hybrid_methods>>

\* ------------------------------------------------------------- responses
NoResponse ==
    [agent_type |-> "-", analysis |-> "-", recommendations |-> <<>>,
     concerns |-> <<>>, confidence_score |-> 0, reasoning |-> <<>>,
     supporting_data |-> "-"]

Returned(r) == [raised |-> FALSE, error |-> {}, response |-> r]
Raised(msg) == [raised |-> TRUE, error |-> msg, response |-> NoResponse]

\* The pydantic constructor.  analysis and supporting_data are kept by the
\* type of the value handed in: "dict", "str" or "None".  A str is no
\* Dict[str, Any], and AgentType(agent_type), evaluated for the first
\* keyword, raises ValueError for a string that is no member's value.
AgentResponseModel(kw) ==
    IF /\ kw.agent_type \in AgentType
       /\ kw.analysis = "dict"
       /\ kw.supporting_data \in {"dict", None}
    THEN Returned(kw)
    ELSE Raised({})

\* ------------------------------------------------------------ strategies
Scaled(score) == (score * confidence_penalty) \div 10000

Min(a, b) == IF a < b THEN a ELSE b

Range(s) == {s[i] : i \in 1..Len(s)}

\* The sequences list(set(items))[:n] can be: the order of a set's elements
\* is not fixed, so any n distinct elements in any order.
DistinctPrefixes(items, n) ==
    LET k == Min(n, Cardinality(items))
    IN {q \in [1..k -> items] : \A i, j \in 1..k : i # j => q[i] # q[j]}

\* RuleBasedFallback._categorize_product, and the category
\* CachedResponsesFallback._find_best_pattern scores highest (the first of
\* the equal scores, in the order of CACHED_PATTERNS).
_categorize_product(product_idea) ==
    IF product_idea \cap {"app", "mobile", "ios", "android"} # {}
    THEN "mobile_app"
    ELSE IF product_idea \cap {"saas", "platform", "software", "tool"} # {}
    THEN "saas_platform"
    ELSE IF product_idea
              \cap {"ai", "artificial intelligence", "machine learning"} # {}
    THEN "ai_tool"
    ELSE "general"

CACHED_PATTERNS ==
    [mobile_app |->
        [risks |-> "High competition, platform dependency",
         recommendations |-> "Focus on unique value, build community"],
     saas_platform |->
        [risks |-> "Customer acquisition costs, churn",
         recommendations |-> "Strong onboarding, customer success"],
     ai_tool |->
        [risks |-> "Rapid technology changes, API dependency",
         recommendations |-> "Differentiate features, build moats"]]

\* The banks of RULE_BASED_TEMPLATES that _generate_from_templates puts into
\* recommendations or concerns.
RULE_BASED_TEMPLATES ==
    [market_researcher |->
        <<"Market saturation", "Regulatory challenges",
          "Technology disruption">>,
     product_manager |->
        <<"User experience first", "Scalable architecture",
          "Market validation", "Iterative development">>,
     risk_analyst |->
        <<"Start with MVP", "Validate assumptions", "Build partnerships",
          "Secure funding">>,
     designer |->
        <<"User-centered design", "Accessibility first", "Mobile responsive",
          "Intuitive navigation">>,
     engineer |->
        <<"Modern web framework", "Cloud infrastructure", "API-first design",
          "Scalable database">>]

\* random.sample(bank, 2): two different positions, in either order.
Sample2(bank) ==
    {<<bank[i], bank[j]>> : i, j \in 1..Len(bank)} \ {<<x, x>> : x \in Range(bank)}

\* The dicts _generate_from_templates can return (analysis is a joined str).
_generate_from_templates(agent_type, product_idea) ==
    LET category == _categorize_product(product_idea)
        recs ==
            IF agent_type = "market_researcher"
            THEN IF category \in DOMAIN CACHED_PATTERNS
                 THEN {<<CACHED_PATTERNS[category].recommendations>>}
                 ELSE {<<>>}
            ELSE IF agent_type \in
                      {"product_manager", "risk_analyst", "designer", "engineer"}
            THEN Sample2(RULE_BASED_TEMPLATES[agent_type])
            ELSE {<<>>}
        cons ==
            IF agent_type = "market_researcher"
            THEN {<<x>> : x \in Range(RULE_BASED_TEMPLATES[agent_type])}
            ELSE {<<>>}
    IN {[agent_type |-> agent_type,
         analysis |-> "str",
         recommendations |->
            IF r = <<>> THEN <<"Focus on core value proposition">> ELSE r,
         concerns |-> IF c = <<>> THEN <<"Requires market validation">> ELSE c,
         confidence_score |-> 5000,
         reasoning |-> <<"Generated using rule-based templates for", agent_type>>,
         supporting_data |-> None] : r \in recs, c \in cons}

\* The dict _generate_from_pattern returns.
_generate_from_pattern(agent_type, product_idea) ==
    LET pattern == _categorize_product(product_idea)
        known == pattern \in DOMAIN CACHED_PATTERNS
        risks == IF known THEN CACHED_PATTERNS[pattern].risks ELSE "-"
        lists ==
            CASE agent_type = "market_researcher" ->
                    <<IF known
                      THEN <<CACHED_PATTERNS[pattern].recommendations>>
                      ELSE <<"Focus on differentiation">>,
                      IF known THEN <<risks>>
                      ELSE <<"Market validation required">> >>
              [] agent_type = "customer_researcher" ->
                    <<<<"Conduct user research", "Validate pain points">>,
                      <<"Customer segment identification">> >>
              [] agent_type = "product_manager" ->
                    <<<<"Build MVP", "Iterate based on feedback",
                        "Focus on core features">>,
                      <<"Product-market fit">> >>
              [] agent_type = "risk_analyst" ->
                    <<<<"Start small", "Validate assumptions",
                        "Build partnerships">>,
                      IF known THEN <<risks>> ELSE <<"Market uncertainty">> >>
              [] agent_type = "designer" ->
                    <<<<"User-centered design", "Accessibility first",
                        "Mobile responsive">>,
                      <<"User adoption">> >>
              [] agent_type = "engineer" ->
                    <<<<"Scalable architecture", "API-first design",
                        "Cloud infrastructure">>,
                      <<"Technical complexity">> >>
              [] OTHER ->
                    <<<<"Validate approach", "Build incrementally">>,
                      <<"Requires further analysis">> >>
    IN [agent_type |-> agent_type,
        analysis |-> "str",
        recommendations |-> lists[1],
        concerns |-> lists[2],
        confidence_score |-> 4000,
        reasoning |-> <<"Generated from cached pattern:", pattern>>,
        supporting_data |-> "str"]

\* The confidence_score the provider may write into its JSON (the prompt
\* asks for a number between 0.0 and 1.0).
ProviderConfidence == {8000, 9000}

\* What the provider's text parses to: the JSON object it holds, whose
\* analysis the model may have written as a sentence or as an object and
\* whose confidence_score is the provider's, or the dict of
\* _fallback_parsing when it holds none.
_parse_openai_response(agent_type) ==
    {[agent_type |-> agent_type,
      analysis |-> a,
      recommendations |-> <<"recommendation 1", "recommendation 2">>,
      concerns |-> <<"concern 1">>,
      confidence_score |-> score,
      reasoning |-> <<"provider reasoning">>,
      supporting_data |-> None] :
         a \in {"str", "dict"}, score \in ProviderConfidence}
    \cup
    {[agent_type |-> agent_type,
      analysis |-> "str",
      recommendations |-> <<"Review and refine approach", "Validate with users">>,
      concerns |-> <<"Requires further analysis">>,
      confidence_score |-> 6000,
      reasoning |-> <<"Generated using fallback parsing">>,
      supporting_data |-> None]}

\* A strategy's generate_response builds the model from the dict, with the
\* penalty applied to its score.
Penalised(d) == AgentResponseModel([d EXCEPT !.confidence_score = Scaled(@)])

\* The outcomes of OpenAIFallback.generate_response with a client: the
\* provider call times out or fails, or its text is parsed and the model
\* built.
OpenAIReplies ==
    [agent_type \in RoleArguments |->
        {Raised({"timeout"}), Raised({})}
        \cup {Penalised(d) : d \in _parse_openai_response(agent_type)}]

OpenAIFallback_generate_response(agent_type, product_idea) ==
    IF ~client THEN {Raised({})} ELSE OpenAIReplies[agent_type]

RuleBasedFallback_generate_response ==
    [agent_type \in RoleArguments, product_idea \in Ideas |->
        {Penalised(d) : d \in _generate_from_templates(agent_type, product_idea)}]

CachedResponsesFallback_generate_response ==
    [agent_type \in RoleArguments, product_idea \in Ideas |->
        {Penalised(_generate_from_pattern(agent_type, product_idea))}]

\* is_available of the three plain strategies.
PlainAvailable(m) == IF m = OPENAI THEN client ELSE TRUE

PlainGenerate(m, agent_type, product_idea) ==
    CASE m = OPENAI -> OpenAIFallback_generate_response(agent_type, product_idea)
      [] m = RULE_BASED ->
            RuleBasedFallback_generate_response[agent_type, product_idea]
      [] m = CACHED_RESPONSES ->
            CachedResponsesFallback_generate_response[agent_type, product_idea]

\* HybridFallback._combine_responses.  The analyses of built models are
\* dicts, which str.join refuses (TypeError).
_combine_responses(responses, agent_type) ==
    IF Len(responses) = 1
    THEN {Returned(responses[1])}
    ELSE LET analysis_parts ==
                 SelectSeq([i \in 1..Len(responses) |-> responses[i].analysis],
                           LAMBDA a : TRUE)
             joined == SubSeq(analysis_parts, 1, Min(2, Len(analysis_parts)))
             all_recommendations ==
                 UNION {Range(responses[i].recommendations) :
                            i \in 1..Len(responses)}
             all_concerns ==
                 UNION {Range(responses[i].concerns) : i \in 1..Len(responses)}
             total_confidence[i \in 0..Len(responses)] ==
                 IF i = 0 THEN 0
                 ELSE total_confidence[i - 1] + responses[i].confidence_score
             avg_confidence == total_confidence[Len(responses)] \div Len(responses)
         IN IF \E i \in 1..Len(joined) : joined[i] # "str"
            THEN {Raised({})}
            ELSE {AgentResponseModel(
                      [agent_type |-> responses[1].agent_type,
                       analysis |-> "str",
                       recommendations |-> rs,
                       concerns |-> cs,
                       confidence_score |-> Scaled(avg_confidence),
                       reasoning |->
                          <<"Combined from", ToString(Len(responses)),
                            "fallback sources">>,
                       supporting_data |-> None]) :
                   rs \in DistinctPrefixes(all_recommendations, 3),
                   cs \in DistinctPrefixes(all_concerns, 2)}

\* HybridSources without the filter of line 399.
HybridSources_unfiltered ==
    SubSeq(hybrid_methods, 1, Min(max_sources, Len(hybrid_methods)))

\* The wrapped strategies HybridFallback.generate_response invokes.
HybridSources ==
    LET available_methods == SelectSeq(hybrid_methods, PlainAvailable)
    IN SubSeq(available_methods, 1, Min(max_sources, Len(available_methods)))

\* The lists of responses the loop over the sources can collect: a source
\* that raises is skipped.
RECURSIVE HybridCollect(_, _, _)
HybridCollect(methods, agent_type, product_idea) ==
    IF methods = <<>>
    THEN {<<>>}
    ELSE {(IF out.raised THEN <<>> ELSE <<out.response>>) \o rest :
            out \in PlainGenerate(Head(methods), agent_type, product_idea),
            rest \in HybridCollect(Tail(methods), agent_type, product_idea)}

HybridFallback_generate_response(agent_type, product_idea) ==
    IF HybridSources = <<>>
    THEN {Raised({})}
    ELSE UNION {IF responses = <<>>
                THEN {Raised({})}
                ELSE _combine_responses(responses, agent_type) :
                  responses \in
                      HybridCollect(HybridSources, agent_type, product_idea)}

is_available(m) ==
    IF m = HYBRID
    THEN \E i \in 1..Len(hybrid_methods) : PlainAvailable(hybrid_methods[i])
    ELSE PlainAvailable(m)

generate_response(m, agent_type, product_idea) ==
    IF m = HYBRID
    THEN HybridFallback_generate_response(agent_type, product_idea)
    ELSE PlainGenerate(m, agent_type, product_idea)

\* Whether generate_response of m reaches an await that suspends: only the
\* call to the provider does.
Suspends(m) ==
    \/ m = OPENAI
    \/ m = HYBRID /\ OPENAI \in Range(HybridSources)

\* fallback_method.__class__.__name__
ClassName(m) ==
    CASE m = OPENAI -> "OpenAIFallback"
      [] m = RULE_BASED -> "RuleBasedFallback"
      [] m = CACHED_RESPONSES -> "CachedResponsesFallback"
      [] m = HYBRID -> "HybridFallback"

\* ---------------------------------------------------------- orchestrator
\* The orchestrator's mutable fields, as one value the methods transform.
Orchestrator ==
    [state |-> state, error_count |-> error_count,
     last_error_time |-> last_error_time,
     fallback_usage_stats |-> fallback_usage_stats]

\* should_use_fallback with a gap of exactly the window counted as inside it.
should_use_fallback_closed_window(self, error, current_time) ==
    IF self.error_count >= api_error_threshold
    THEN [result |-> TRUE, self |-> self]
    ELSE IF self.state # PRIMARY
    THEN [result |-> TRUE, self |-> self]
    ELSE IF error = NoError
    THEN [result |-> FALSE, self |-> self]
    ELSE IF "rate limit" \in error \/ "quota" \in error
    THEN [result |-> TRUE, self |-> [self EXCEPT !.state = FALLBACK]]
    ELSE IF "timeout" \in error \/ "connection" \in error
    THEN LET counted ==
                 [self EXCEPT
                    !.error_count =
                        IF current_time - self.last_error_time <= ErrorWindow
                        THEN @ + 1
                        ELSE 1,
                    !.last_error_time = current_time]
         IN IF counted.error_count >= api_error_threshold
            THEN [result |-> TRUE, self |-> [counted EXCEPT !.state = FALLBACK]]
            ELSE [result |-> FALSE, self |-> counted]
    ELSE [result |-> FALSE, self |-> self]

\* should_use_fallback without the early return of line 75: errors are
\* classified in every state.
should_use_fallback_in_any_state(self, error, current_time) ==
    IF self.error_count >= api_error_threshold
    THEN [result |-> TRUE, self |-> self]
    ELSE IF error = NoError
    THEN [result |-> FALSE, self |-> self]
    ELSE IF "rate limit" \in error \/ "quota" \in error
    THEN [result |-> TRUE, self |-> [self EXCEPT !.state = FALLBACK]]
    ELSE IF "timeout" \in error \/ "connection" \in error
    THEN LET counted ==
                 [self EXCEPT
                    !.error_count =
                        IF current_time - self.last_error_time < ErrorWindow
                        THEN @ + 1
                        ELSE 1,
                    !.last_error_time = current_time]
         IN IF counted.error_count >= api_error_threshold
            THEN [result |-> TRUE, self |-> [counted EXCEPT !.state = FALLBACK]]
            ELSE [result |-> FALSE, self |-> counted]
    ELSE [result |-> FALSE, self |-> self]

\* should_use_fallback: the decision it returns and the fields it leaves.
should_use_fallback(self, error, current_time) ==
    IF self.error_count >= api_error_threshold
    THEN [result |-> TRUE, self |-> self]
    ELSE IF self.state # PRIMARY
    THEN [result |-> TRUE, self |-> self]
    ELSE IF error = NoError
    THEN [result |-> FALSE, self |-> self]
    ELSE IF "rate limit" \in error \/ "quota" \in error
    THEN [result |-> TRUE, self |-> [self EXCEPT !.state = FALLBACK]]
    ELSE IF "timeout" \in error \/ "connection" \in error
    THEN LET counted ==
                 [self EXCEPT
                    !.error_count =
                        IF current_time - self.last_error_time < ErrorWindow
                        THEN @ + 1
                        ELSE 1,
                    !.last_error_time = current_time]
         IN IF counted.error_count >= api_error_threshold
            THEN [result |-> TRUE, self |-> [counted EXCEPT !.state = FALLBACK]]
            ELSE [result |-> FALSE, self |-> counted]
    ELSE [result |-> FALSE, self |-> self]

\* get_fallback_method without the availability test of line 109.
get_fallback_method_registered(agent_type) ==
    LET preferred == SelectSeq(FALLBACK_ORDER, LAMBDA s : s \in fallback_methods)
    IN IF preferred # <<>> THEN preferred[1] ELSE None

\* get_fallback_method.  The second loop, over every registered method, can
\* find nothing the first did not when every key is in FALLBACK_ORDER.
get_fallback_method(agent_type) ==
    IF fallback_methods = {}
    THEN None
    ELSE LET preferred ==
                 SelectSeq(FALLBACK_ORDER,
                           LAMBDA s : s \in fallback_methods /\ is_available(s))
             others == {m \in fallback_methods : is_available(m)}
         IN IF preferred # <<>>
            THEN preferred[1]
            ELSE IF others # {}
            THEN CHOOSE m \in others : TRUE
            ELSE None

\* _track_fallback_usage that counts from a fresh entry at every call.
_track_fallback_usage_from_fresh(self, method_name, success, current_time) ==
    [self EXCEPT
       !.fallback_usage_stats =
           [n \in DOMAIN @ \cup {method_name} |->
               IF n = method_name
               THEN [total_attempts |-> 1,
                     successful_attempts |-> IF success THEN 1 ELSE 0,
                     last_used |-> current_time,
                     success_rate |-> <<>>]
               ELSE @[n]]]

\* An entry is a dict updated in place: success_rate is <<>> while the
\* entry has no such key and <<rate>> once it has.
_track_fallback_usage(self, method_name, success, current_time) ==
    LET known == method_name \in DOMAIN self.fallback_usage_stats
        before ==
            IF known
            THEN self.fallback_usage_stats[method_name]
            ELSE [total_attempts |-> 0, successful_attempts |-> 0,
                  last_used |-> 0, success_rate |-> <<>>]
        after ==
            [total_attempts |-> before.total_attempts + 1,
             successful_attempts |->
                IF success
                THEN before.successful_attempts + 1
                ELSE before.successful_attempts,
             last_used |-> current_time,
             success_rate |-> before.success_rate]
    IN [self EXCEPT
          !.fallback_usage_stats =
              [n \in DOMAIN @ \cup {method_name} |->
                  IF n = method_name THEN after ELSE @[n]]]

\* _execute_emergency_fallback: the state is set before the response is
\* built; analysis and supporting_data are given as str.
_execute_emergency_fallback(self, agent_type) ==
    [self |-> [self EXCEPT !.state = EMERGENCY],
     out |->
        AgentResponseModel(
            [agent_type |-> agent_type,
             analysis |-> "str",
             recommendations |->
                <<"Contact support", "Try again later", "Check system status">>,
             concerns |-> <<"System degraded", "Limited functionality">>,
             confidence_score |-> EMERGENCY_CONFIDENCE,
             reasoning |->
                <<"Emergency fallback response - system experiencing issues">>,
             supporting_data |-> "str"])]

\* How a call ends: the fields it leaves and what it hands its caller, the
\* pair (response, used_fallback) or an exception.  path names the branch of
\* execute_with_fallback the call ended on, and syntheses counts the times
\* _execute_emergency_fallback was entered on the way.
Ended(self, out, used_fallback, path) ==
    [self |-> self,
     outcome |-> IF out.raised THEN "raised" ELSE "returned",
     response |-> out.response,
     used_fallback |-> used_fallback /\ ~out.raised,
     path |-> path,
     syntheses |-> 0]

\* The handler of execute_with_fallback (lines 149-152): whatever was
\* raised inside the body ends in the emergency synthesis, and what that
\* raises leaves the call.
AllMethodsFailed(self, agent_type, path) ==
    LET emergency == _execute_emergency_fallback(self, agent_type)
    IN [Ended(emergency.self, emergency.out, TRUE, path) EXCEPT !.syntheses = 1]

\* _execute_fallback from the point where generate_response has ended with
\* out (lines 167-186).  The emergency synthesis of line 186 runs inside the
\* except clause, so what it raises reaches the handler of line 149.
StrategyEnded(self, method, agent_type, out, current_time) ==
    IF ~out.raised
    THEN Ended(_track_fallback_usage(self, ClassName(method), TRUE, current_time),
               Returned([out.response EXCEPT
                            !.reasoning = <<FALLBACK_MARKER>> \o @]),
               TRUE, "strategy")
    ELSE LET tracked ==
                 _track_fallback_usage(self, ClassName(method), FALSE, current_time)
             emergency == _execute_emergency_fallback(tracked, agent_type)
         IN IF ~emergency.out.raised
            THEN [Ended(emergency.self, emergency.out, TRUE, "strategy_failed")
                    EXCEPT !.syntheses = 1]
            ELSE [AllMethodsFailed(emergency.self, agent_type,
                                   "strategy_failed")
                    EXCEPT !.syntheses = 2]

\* get_confidence_score of each strategy class; the hybrid averages over
\* every strategy it wraps.
RECURSIVE SumScores(_, _)
SumScores(score, methods) ==
    IF methods = <<>>
    THEN 0
    ELSE score[Head(methods)] + SumScores(score, Tail(methods))

get_confidence_score(m) ==
    LET plain == [s \in {OPENAI, RULE_BASED, CACHED_RESPONSES} |->
                     CASE s = OPENAI -> 8000
                       [] s = RULE_BASED -> 5000
                       [] s = CACHED_RESPONSES -> 4000]
    IN IF m # HYBRID
       THEN plain[m]
       ELSE IF hybrid_methods = <<>>
       THEN 0
       ELSE SumScores(plain, hybrid_methods) \div Len(hybrid_methods)

\* get_fallback_stats (lines 223-240): method_stats is the stored dict
\* itself, and the loop writes success_rate into each of its entries.
get_fallback_stats(self) ==
    LET rated ==
            [n \in DOMAIN self.fallback_usage_stats |->
                [self.fallback_usage_stats[n] EXCEPT
                    !.success_rate =
                        IF self.fallback_usage_stats[n].total_attempts > 0
                        THEN <<(self.fallback_usage_stats[n].successful_attempts
                                    * 10000)
                                 \div self.fallback_usage_stats[n].total_attempts>>
                        ELSE <<0>>]]
    IN [self |-> [self EXCEPT !.fallback_usage_stats = rated],
        out |->
           [current_state |-> self.state,
            error_count |-> self.error_count,
            last_error_time |-> self.last_error_time,
            available_fallbacks |->
                Cardinality({m \in fallback_methods : is_available(m)}),
            method_stats |-> rated]]

\* is_healthy without the state test of line 251.
is_healthy_by_availability ==
    {m \in fallback_methods : is_available(m)} # {}

\* is_healthy (lines 249-256).
is_healthy ==
    IF state = EMERGENCY
    THEN FALSE
    ELSE LET available_fallbacks == {m \in fallback_methods : is_available(m)}
         IN Cardinality(available_fallbacks) > 0

\* get_health_status (lines 258-274).
get_health_status ==
    [healthy |-> is_healthy,
     state |-> state,
     available_fallbacks |->
         Cardinality({m \in fallback_methods : is_available(m)}),
     total_fallbacks |-> Cardinality(fallback_methods),
     error_count |-> error_count,
     last_error_time |-> last_error_time,
     fallback_methods |->
         [name \in fallback_methods |->
             [available |-> is_available(name),
              confidence |-> get_confidence_score(name)]]]

\* ------------------------------------------------------------------ calls
\* A call is at one of its awaits.  Its agent_type is its caller's;
\* product_idea is read only where a strategy builds a response, so it is
\* drawn in the step that builds it.
Idle == [pc |-> "idle", method |-> "-"]

\* result describes the step just taken by a call: the error its primary
\* operation raised in that step (NoError if it did not) and, if the step
\* ended the call, the role it was made for, how it ended and what it handed
\* over.  After a direct call of get_fallback_method it holds the role asked
\* for and, as method, what was returned; after a direct call of another
\* method of the orchestrator, as status, what that returned.  For a step
\* that ended a call, status is the number of emergency syntheses run in it.
NoResult ==
    [outcome |-> "-", response |-> NoResponse, used_fallback |-> FALSE,
     path |-> "-", agent_type |-> "-", error |-> NoError, method |-> "-",
     status |-> "-"]

Attempts(method) ==
    IF ClassName(method) \in DOMAIN fallback_usage_stats
    THEN fallback_usage_stats[ClassName(method)].total_attempts
    ELSE 0

SetOrchestrator(self) ==
    /\ state' = self.state
    /\ error_count' = self.error_count
    /\ last_error_time' = self.last_error_time
    /\ fallback_usage_stats' = self.fallback_usage_stats

\* The call c, made for agent_type, returns or raises; error is what its
\* primary operation raised in this step.
Finish(c, agent_type, error, end) ==
    /\ SetOrchestrator(end.self)
    /\ calls' = [calls EXCEPT ![c] = Idle]
    /\ result' =
          [outcome |-> end.outcome, response |-> end.response,
           used_fallback |-> end.used_fallback, path |-> end.path,
           agent_type |-> agent_type, error |-> error, method |-> "-",
           status |-> end.syntheses]

\* _execute_fallback (lines 154-186) entered by call c with the fields self:
\* no method, a method whose generate_response suspends, or one that runs to
\* its end at once.
_execute_fallback(c, self, agent_type, error) ==
    LET fallback_method == get_fallback_method(agent_type)
    IN IF fallback_method = None
       THEN Finish(c, agent_type, error,
                   AllMethodsFailed(self, agent_type, "no_method"))
       ELSE /\ Attempts(fallback_method) < MaxAttempts
            /\ IF Suspends(fallback_method)
               THEN /\ SetOrchestrator(self)
                    /\ calls' =
                          [calls EXCEPT
                             ![c] = [pc |-> "strategy",
                                     method |-> fallback_method]]
                    /\ result' = [NoResult EXCEPT !.error = error]
               ELSE \E product_idea \in Ideas :
                      \E out \in generate_response(fallback_method, agent_type,
                                                   product_idea) :
                        Finish(c, agent_type, error,
                               StrategyEnded(self, fallback_method, agent_type,
                                             out, now))

\* _parse_response whose outer except hands back the text it could not
\* parse as analysis.
_parse_response_keeping_text ==
    {[analysis |-> "dict",
      recommendations |-> <<"action 1", "action 2">>,
      concerns |-> <<"risk 1", "risk 2">>,
      confidence_score |-> 8000,
      reasoning |-> <<"one sentence explanation">>,
      supporting_data |-> None],
     [analysis |-> "dict",
      recommendations |-> <<"Review analysis">>,
      concerns |-> <<"Verify details">>,
      confidence_score |-> 7000,
      reasoning |-> <<"Automated parsing">>,
      supporting_data |-> None],
     [analysis |-> "str",
      recommendations |-> <<>>,
      concerns |-> <<"Analysis failed">>,
      confidence_score |-> 5000,
      reasoning |-> <<"Error in processing">>,
      supporting_data |-> None]}

\* The dicts BaseAgent._parse_response can return: the parser's JSON, the
\* dict of the inner except (its output is no JSON), the dict of the outer
\* except (the parser call raised).
_parse_response ==
    {[analysis |-> "dict",
      recommendations |-> <<"action 1", "action 2">>,
      concerns |-> <<"risk 1", "risk 2">>,
      confidence_score |-> 8000,
      reasoning |-> <<"one sentence explanation">>,
      supporting_data |-> None],
     [analysis |-> "dict",
      recommendations |-> <<"Review analysis">>,
      concerns |-> <<"Verify details">>,
      confidence_score |-> 7000,
      reasoning |-> <<"Automated parsing">>,
      supporting_data |-> None],
     [analysis |-> "dict",
      recommendations |-> <<>>,
      concerns |-> <<"Analysis failed">>,
      confidence_score |-> 5000,
      reasoning |-> <<"Error in processing">>,
      supporting_data |-> None]}

\* The model primary_analysis builds from the dict analysis_result (lines
\* 70-78).
analysis_model(agent_type, analysis_result) ==
    AgentResponseModel(
        [agent_type |-> agent_type,
         analysis |-> analysis_result.analysis,
         recommendations |-> analysis_result.recommendations,
         concerns |-> analysis_result.concerns,
         confidence_score |-> analysis_result.confidence_score,
         reasoning |-> analysis_result.reasoning,
         supporting_data |-> analysis_result.supporting_data])

\* The dicts _parse_response builds itself: the parser's output is no JSON,
\* or the parser call raised.
LocallyBuilt ==
    {d \in _parse_response :
        d.reasoning \in {<<"Automated parsing">>, <<"Error in processing">>}}

\* The outcomes of the primary operation, the closure primary_analysis of
\* BaseAgent.analyze: the provider call fails with some message, or its
\* text is parsed and the model built.
primary_analysis ==
    [agent_type \in AgentType |->
        {Raised(msg) : msg \in ErrorMessages}
        \cup {analysis_model(agent_type, d) : d \in _parse_response}]

\* ---------------------------------------------------------------- actions
\* execute_with_fallback is called (lines 129-133, 147): in PRIMARY the
\* primary operation is awaited, otherwise _execute_fallback is entered.
execute_with_fallback(c) ==
    /\ calls[c].pc = "idle"
    /\ IF state = PRIMARY
       THEN /\ calls' = [calls EXCEPT ![c] = [pc |-> "primary", method |-> "-"]]
            /\ result' = NoResult
            /\ UNCHANGED <<state, error_count, last_error_time,
                           fallback_usage_stats>>
       ELSE _execute_fallback(c, Orchestrator, Handed(c), NoError)
    /\ UNCHANGED <<registry, now>>

\* PrimaryEnds whose success puts the state back to PRIMARY.
PrimaryEnds_restoring_state(c) ==
    /\ calls[c].pc = "primary"
    /\ LET agent_type == Handed(c)
       IN \E out \in primary_analysis[c.role] :
          IF ~out.raised
          THEN Finish(c, agent_type, NoError,
                      Ended([Orchestrator EXCEPT !.error_count = 0,
                                               !.state = PRIMARY], out, FALSE,
                            "primary"))
          ELSE LET decision == should_use_fallback(Orchestrator, out.error, now)
               IN IF decision.result
                  THEN _execute_fallback(c, decision.self, agent_type,
                                         out.error)
                  ELSE Finish(c, agent_type, out.error,
                              AllMethodsFailed(decision.self, agent_type,
                                               "reraised"))
    /\ UNCHANGED <<registry, now>>

\* The primary operation of call c ends (lines 133-144).
PrimaryEnds(c) ==
    /\ calls[c].pc = "primary"
    /\ LET agent_type == Handed(c)
       IN \E out \in primary_analysis[c.role] :
          IF ~out.raised
          THEN Finish(c, agent_type, NoError,
                      Ended([Orchestrator EXCEPT !.error_count = 0], out, FALSE,
                            "primary"))
          ELSE LET decision == should_use_fallback(Orchestrator, out.error, now)
               IN IF decision.result
                  THEN _execute_fallback(c, decision.self, agent_type,
                                         out.error)
                  ELSE Finish(c, agent_type, out.error,
                              AllMethodsFailed(decision.self, agent_type,
                                               "reraised"))
    /\ UNCHANGED <<registry, now>>

\* generate_response of the method call c awaits ends (lines 167-186).
StrategyEnds(c) ==
    /\ calls[c].pc = "strategy"
    /\ \E product_idea \in Ideas :
         \E out \in generate_response(calls[c].method, Handed(c), product_idea) :
            Finish(c, Handed(c), NoError,
                   StrategyEnded(Orchestrator, calls[c].method, Handed(c), out,
                                 now))
    /\ UNCHANGED <<registry, now>>

\* should_use_fallback called on the shared orchestrator from outside
\* execute_with_fallback.
CallShouldUseFallback ==
    /\ \E error \in ErrorMessages \cup {NoError} :
          SetOrchestrator(should_use_fallback(Orchestrator, error, now).self)
    /\ result' = NoResult
    /\ UNCHANGED <<registry, now, calls>>

\* reset_to_primary without the assignment of line 246.
reset_to_primary_keeping_window ==
    /\ state' = PRIMARY
    /\ error_count' = 0
    /\ result' = NoResult
    /\ UNCHANGED <<last_error_time, fallback_usage_stats, registry, now, calls>>

\* reset_to_primary without the assignment of line 245.
reset_to_primary_keeping_count ==
    /\ state' = PRIMARY
    /\ last_error_time' = 0
    /\ result' = NoResult
    /\ UNCHANGED <<error_count, fallback_usage_stats, registry, now, calls>>

reset_to_primary ==
    /\ state' = PRIMARY
    /\ error_count' = 0
    /\ last_error_time' = 0
    /\ result' = NoResult
    /\ UNCHANGED <<fallback_usage_stats, registry, now, calls>>

\* Time passes: half an error window or a whole one.
Tick ==
    /\ \E d \in {ErrorWindow \div 2, ErrorWindow} :
          /\ now + d <= ErrorWindow * (MaxTicks + 1)
          /\ now' = now + d
    /\ result' = NoResult
    /\ UNCHANGED <<state, error_count, last_error_time, fallback_usage_stats,
                   registry, calls>>

\* The registries the orchestrator is run with: the keys of fallback_methods,
\* whether the OpenAI strategy has its client, and the strategies the hybrid
\* wraps.  The first two are what _initialize_fallback_methods builds with
\* and without the provider's key.
Registries ==
    {<<{OPENAI, RULE_BASED, CACHED_RESPONSES, HYBRID}, TRUE,
       <<OPENAI, RULE_BASED, CACHED_RESPONSES>> >>,
     <<{RULE_BASED, CACHED_RESPONSES, HYBRID}, FALSE,
       <<RULE_BASED, CACHED_RESPONSES>> >>,
     <<{}, FALSE, <<>> >>,
     <<{OPENAI}, FALSE, <<>> >>,
     <<{OPENAI, HYBRID}, FALSE, <<OPENAI>> >>,
     <<{HYBRID}, TRUE, <<OPENAI, RULE_BASED>> >>,
     <<{CACHED_RESPONSES, HYBRID}, FALSE, <<CACHED_RESPONSES>> >>}

InitWith(callers) ==
    /\ state = PRIMARY
    /\ error_count = 0
    /\ last_error_time = 0
    /\ fallback_usage_stats = <<>>
    /\ \E r \in Registries :
          /\ fallback_methods = r[1]
          /\ client = r[2]
          /\ hybrid_methods = r[3]
    /\ now = ErrorWindow
    /\ calls = [c \in callers |-> Idle]
    /\ result = NoResult

\* Concurrent calls on the shared orchestrator, within one error window.
Init == InitWith(CallIds)

Next ==
    \/ \E c \in DOMAIN calls : execute_with_fallback(c)
    \/ \E c \in DOMAIN calls : PrimaryEnds(c)
    \/ \E c \in DOMAIN calls : StrategyEnds(c)
    \/ CallShouldUseFallback
    \/ reset_to_primary

Spec == Init /\ [][Next]_vars

\* One call after the other, while time passes.
InitTimed == \E role \in AgentType : InitWith({Direct(role)})

NextTimed ==
    \/ Next
    \/ Tick

SpecTimed == InitTimed /\ [][NextTimed]_vars

\* The role agents: BaseAgent.analyze of the first NumCalls agents of the
\* orchestrator, each awaiting execute_with_fallback with its closure
\* primary_analysis and str(self.agent_type); analyze hands on what that
\* returns and re-raises what it raises (lines 80-98).
AgentIds == {Wrapped(AgentOrder[i]) : i \in 1..NumCalls}

InitAgents == InitWith(AgentIds)

SpecAgents == InitAgents /\ [][Next]_vars

\* ------------------------------------------------------------ the retry
\* retry_analysis of primary_analysis (base_agent.py, lines 59-65): the
\* provider call under @retry(stop=stop_after_attempt(3), wait=...).  The
\* decorator is given no retry predicate, so an attempt is repeated after
\* any Exception, whatever its message, until one returns or the third has
\* raised.
stop_after_attempt == 3

\* What the provider call does at each attempt that is made: it raises
\* with some message or returns (NoError).
ProviderReplies ==
    [1..stop_after_attempt -> ErrorMessages \cup {NoError}]

\* The number of the attempt retry_analysis ends with, and the error it
\* ends with if that attempt raised too.
retry_analysis(replies) ==
    LET returned == {i \in 1..stop_after_attempt : replies[i] = NoError}
        attempt_number ==
            IF returned = {}
            THEN stop_after_attempt
            ELSE CHOOSE i \in returned : \A j \in returned : i <= j
    IN [attempt_number |-> attempt_number,
        raised |-> returned = {},
        error |-> replies[attempt_number]]

\* primary_analysis awaits retry_analysis; status keeps what the provider
\* did at each attempt and the number of attempts made.
CallRetryAnalysis ==
    /\ \E replies \in ProviderReplies :
          LET end == retry_analysis(replies)
          IN result' = [NoResult EXCEPT
                          !.path = "retry_analysis",
                          !.outcome = IF end.raised THEN "raised" ELSE "-",
                          !.error = end.error,
                          !.status = [replies |-> replies,
                                      attempt_number |-> end.attempt_number]]
    /\ UNCHANGED <<state, error_count, last_error_time, fallback_usage_stats,
                   registry, now, calls>>

\* The provider calls of the role agents by themselves.
NextRetry == CallRetryAnalysis

SpecRetry == InitAgents /\ [][NextRetry]_vars

\* ------------------------------------------------------------ the batch
\* _run_all_agents (critic_orchestrator.py, lines 193-228): one task per
\* agent of self.agents, gathered with return_exceptions=True under
\* asyncio.wait_for.  A task is pending (pc "idle") until its analyze ends,
\* "returned" or "raised", or it is cancelled.
JointTimeout == 300

\* The batch is entered in the initial state, at the clock value InitWith
\* gives.
Deadline == ErrorWindow + JointTimeout

BatchIds == {Wrapped(AgentOrder[i]) : i \in 1..Len(AgentOrder)}

\* _execute_fallback of a call that runs from the fields self to its end.
ExecuteFallbackEnds(self, agent_type) ==
    LET fallback_method == get_fallback_method(agent_type)
    IN IF fallback_method = None
       THEN {AllMethodsFailed(self, agent_type, "no_method")}
       ELSE {StrategyEnded(self, fallback_method, agent_type, out, now) :
                out \in UNION {generate_response(fallback_method, agent_type,
                                                 product_idea) :
                                  product_idea \in Ideas}}

\* The ways analyze of the agent c can end when it runs from the fields self
\* with no other task's step in between: what execute_with_fallback hands
\* it, which it returns or re-raises.
analyze(self, c) ==
    LET agent_type == Handed(c)
    IN IF self.state # PRIMARY
       THEN ExecuteFallbackEnds(self, agent_type)
       ELSE UNION
              {IF ~out.raised
               THEN {Ended([self EXCEPT !.error_count = 0], out, FALSE,
                           "primary")}
               ELSE LET decision == should_use_fallback(self, out.error, now)
                    IN IF decision.result
                       THEN ExecuteFallbackEnds(decision.self, agent_type)
                       ELSE {AllMethodsFailed(decision.self, agent_type,
                                              "reraised")} :
                 out \in primary_analysis[c.role]}

\* wait_for has neither returned nor raised.
BatchPending == result.path # "_run_all_agents"

Pending == {c \in DOMAIN calls : calls[c].pc = "idle"}

\* The task of agent c ends before the deadline.
AgentResolves(c) ==
    /\ BatchPending
    /\ now < Deadline
    /\ c \in Pending
    /\ \E end \in analyze(Orchestrator, c) :
          /\ SetOrchestrator(end.self)
          /\ calls' = [calls EXCEPT ![c] = [pc |-> end.outcome, method |-> "-"]]
    /\ result' = NoResult
    /\ UNCHANGED <<registry, now>>

\* Time passes while the batch is awaited.
Elapse ==
    /\ BatchPending
    /\ now < Deadline
    /\ Pending # {}
    /\ now' = now + JointTimeout \div 2
    /\ result' = NoResult
    /\ UNCHANGED <<state, error_count, last_error_time, fallback_usage_stats,
                   registry, calls>>

\* valid_responses of lines 216-224: the results of gather, in the order
\* of self.agents, without the exceptions.
valid_responses ==
    SelectSeq(AgentOrder, LAMBDA role : calls[Wrapped(role)].pc = "returned")

\* gather is done: the results are filtered and the list returned.
BatchReturns ==
    /\ BatchPending
    /\ Pending = {}
    /\ result' = [NoResult EXCEPT !.path = "_run_all_agents",
                                  !.outcome = "returned",
                                  !.status = valid_responses]
    /\ UNCHANGED <<state, error_count, last_error_time, fallback_usage_stats,
                   registry, now, calls>>

\* The timeout of wait_for expires with tasks pending: gather is cancelled,
\* which cancels its pending tasks, and the TimeoutError is turned into the
\* Exception of line 228.
JointTimeoutExpires ==
    /\ BatchPending
    /\ now >= Deadline
    /\ Pending # {}
    /\ calls' = [c \in DOMAIN calls |->
                   IF c \in Pending
                   THEN [pc |-> "cancelled", method |-> "-"]
                   ELSE calls[c]]
    /\ result' = [NoResult EXCEPT !.path = "_run_all_agents",
                                  !.outcome = "raised",
                                  !.error = {"timed out"}]
    /\ UNCHANGED <<state, error_count, last_error_time, fallback_usage_stats,
                   registry, now>>

InitBatch == InitWith(BatchIds)

NextBatch ==
    \/ \E c \in DOMAIN calls : AgentResolves(c)
    \/ Elapse
    \/ BatchReturns
    \/ JointTimeoutExpires

SpecBatch == InitBatch /\ [][NextBatch]_vars

\* should_use_fallback called on the orchestrator from outside
\* execute_with_fallback, with what it was given and what it returned kept.
ObservedShouldUseFallback ==
    /\ \E error \in ErrorMessages \cup {NoError} :
          LET decision == should_use_fallback(Orchestrator, error, now)
          IN /\ SetOrchestrator(decision.self)
             /\ result' = [NoResult EXCEPT !.path = "should_use_fallback",
                                           !.error = error,
                                           !.status = decision.result]
    /\ UNCHANGED <<registry, now, calls>>

\* The decision alone, while time passes.
NextWindow ==
    \/ ObservedShouldUseFallback
    \/ reset_to_primary
    \/ Tick

SpecWindow == InitTimed /\ [][NextWindow]_vars

\* The status operations, called between the steps of one call.
CallGetFallbackStats ==
    /\ LET stats == get_fallback_stats(Orchestrator)
       IN /\ SetOrchestrator(stats.self)
          /\ result' = [NoResult EXCEPT !.path = "get_fallback_stats",
                                        !.status = stats.out]
    /\ UNCHANGED <<registry, now, calls>>

CallGetHealthStatus ==
    /\ result' = [NoResult EXCEPT !.path = "get_health_status",
                                  !.status = get_health_status]
    /\ UNCHANGED <<state, error_count, last_error_time, fallback_usage_stats,
                   registry, now, calls>>

CallIsHealthy ==
    /\ result' = [NoResult EXCEPT !.path = "is_healthy",
                                  !.status = is_healthy]
    /\ UNCHANGED <<state, error_count, last_error_time, fallback_usage_stats,
                   registry, now, calls>>

NextStatus ==
    \/ Next
    \/ CallGetFallbackStats
    \/ CallGetHealthStatus
    \/ CallIsHealthy

SpecStatus == InitTimed /\ [][NextStatus]_vars

\* generate_response of a registered strategy called by itself.
CallGenerateResponse ==
    /\ \E m \in fallback_methods, agent_type \in AgentType,
          product_idea \in Ideas :
          \E out \in generate_response(m, agent_type, product_idea) :
             result' = [NoResult EXCEPT
                          !.path = "generate_response",
                          !.method = m,
                          !.agent_type = agent_type,
                          !.outcome = IF out.raised THEN "raised" ELSE "returned",
                          !.response = out.response]
    /\ UNCHANGED <<state, error_count, last_error_time, fallback_usage_stats,
                   registry, now, calls>>

\* The responses a wrapped strategy can hand the hybrid.
SubResponses ==
    [agent_type \in AgentType |->
        {out.response :
            out \in {o \in OpenAIReplies[agent_type]
                            \cup UNION {RuleBasedFallback_generate_response
                                            [agent_type, i]: i \in Ideas}
                            \cup UNION {CachedResponsesFallback_generate_response
                                            [agent_type, i] : i \in Ideas} :
                        ~o.raised}}]

\* _combine_responses given the responses of two wrapped strategies that
\* both succeeded; status keeps the two.
CallCombineResponses ==
    /\ \E agent_type \in AgentType :
          \E first \in SubResponses[agent_type],
             second \in SubResponses[agent_type] :
             \E out \in _combine_responses(<<first, second>>, agent_type) :
                result' = [NoResult EXCEPT
                             !.path = "_combine_responses",
                             !.method = HYBRID,
                             !.agent_type = agent_type,
                             !.status = <<first, second>>,
                             !.outcome =
                                 IF out.raised THEN "raised" ELSE "returned",
                             !.response = out.response]
    /\ UNCHANGED <<state, error_count, last_error_time, fallback_usage_stats,
                   registry, now, calls>>

\* The ways the loop of HybridFallback.generate_response over sources can
\* go (lines 404-410): each source in turn is invoked and returns or
\* raises, whatever the sources before it did.
RECURSIVE HybridAttempts(_, _, _)
HybridAttempts(sources, agent_type, product_idea) ==
    IF sources = <<>>
    THEN {<<>>}
    ELSE {<<[method |-> Head(sources), out |-> out]>> \o rest :
            out \in PlainGenerate(Head(sources), agent_type, product_idea),
            rest \in HybridAttempts(Tail(sources), agent_type, product_idea)}

\* responses of line 403 after the attempts.
Collected(attempts) ==
    LET succeeded == SelectSeq(attempts, LAMBDA a : ~a.out.raised)
    IN [i \in 1..Len(succeeded) |-> succeeded[i].out.response]

\* generate_response of a registered hybrid called by itself; status keeps
\* the wrapped strategies it invoked, in order, each with how it ended.
CallHybridGenerateResponse ==
    /\ HYBRID \in fallback_methods
    /\ \E agent_type \in AgentType, product_idea \in Ideas :
          \E attempts \in HybridAttempts(HybridSources, agent_type,
                                         product_idea) :
             \E out \in HybridFallback_generate_response(agent_type,
                                                         product_idea)
                        \cap (IF Collected(attempts) = <<>>
                              THEN {Raised({})}
                              ELSE _combine_responses(Collected(attempts),
                                                      agent_type)) :
                result' = [NoResult EXCEPT
                             !.path = "HybridFallback.generate_response",
                             !.method = HYBRID,
                             !.agent_type = agent_type,
                             !.status = attempts,
                             !.outcome =
                                 IF out.raised THEN "raised" ELSE "returned",
                             !.response = out.response]
    /\ UNCHANGED <<state, error_count, last_error_time, fallback_usage_stats,
                   registry, now, calls>>

\* The strategies by themselves, with every registry.
NextStrategies ==
    \/ CallGenerateResponse
    \/ CallCombineResponses
    \/ CallHybridGenerateResponse

\* get_fallback_method called on the orchestrator from outside
\* execute_with_fallback.
CallGetFallbackMethod ==
    /\ \E agent_type \in AgentType :
          result' = [NoResult EXCEPT !.path = "get_fallback_method",
                                     !.agent_type = agent_type,
                                     !.method = get_fallback_method(agent_type)]
    /\ UNCHANGED <<state, error_count, last_error_time, fallback_usage_stats,
                   registry, now, calls>>

\* Every registry over the four keys _initialize_fallback_methods uses: any
\* set of them registered, the client there or not, the hybrid wrapping any
\* list of the other three without repetition.
HybridLists ==
    {hm \in UNION {[1..n -> {OPENAI, RULE_BASED, CACHED_RESPONSES}] : n \in 0..3} :
        \A i, j \in DOMAIN hm : i # j => hm[i] # hm[j]}

AllRegistries ==
    (SUBSET {OPENAI, RULE_BASED, CACHED_RESPONSES, HYBRID})
        \X BOOLEAN \X HybridLists

\* The selection of a strategy with every registry, between direct calls
\* that change the state and the error count.
InitSelect ==
    /\ state = PRIMARY
    /\ error_count = 0
    /\ last_error_time = 0
    /\ fallback_usage_stats = <<>>
    /\ \E r \in AllRegistries :
          /\ fallback_methods = r[1]
          /\ client = r[2]
          /\ hybrid_methods = r[3]
    /\ now = ErrorWindow
    /\ calls = [c \in {} |-> Idle]
    /\ result = NoResult

NextSelect ==
    \/ CallGetFallbackMethod
    \/ CallShouldUseFallback
    \/ reset_to_primary

SpecSelect == InitSelect /\ [][NextSelect]_vars

SpecStrategies == InitSelect /\ [][NextStrategies]_vars

\* _initialize_fallback_methods (lines 38-64): what it registers when
\* _setup_client has set the client of OpenAIFallback (the key was in the
\* environment) and when it has not.  The hybrid wraps the available
\* methods in the order they were registered in.
_initialize_fallback_methods(has_client) ==
    LET first == IF has_client THEN <<OPENAI>> ELSE <<>>
        available_methods == first \o <<RULE_BASED, CACHED_RESPONSES>>
    IN <<Range(available_methods)
            \cup (IF Len(available_methods) > 1 THEN {HYBRID} ELSE {}),
         has_client,
         IF Len(available_methods) > 1 THEN available_methods ELSE <<>> >>

\* The orchestrator as its constructor leaves it (lines 30-36), with calls
\* on it and direct calls of get_fallback_method.
InitBuilt ==
    /\ state = PRIMARY
    /\ error_count = 0
    /\ last_error_time = 0
    /\ fallback_usage_stats = <<>>
    /\ \E has_client \in BOOLEAN :
          /\ fallback_methods = _initialize_fallback_methods(has_client)[1]
          /\ client = _initialize_fallback_methods(has_client)[2]
          /\ hybrid_methods = _initialize_fallback_methods(has_client)[3]
    /\ now = ErrorWindow
    /\ calls = [c \in CallIds |-> Idle]
    /\ result = NoResult

NextBuilt ==
    \/ Next
    \/ CallGetFallbackMethod

SpecBuilt == InitBuilt /\ [][NextBuilt]_vars

\* ----------------------------------------------------------------- claims
EmergencyPaths == {"reraised", "no_method", "strategy_failed"}

HasMarker(response) ==
    /\ response.reasoning # <<>>
    /\ response.reasoning[1] = FALLBACK_MARKER

RateLimited(error) == "rate limit" \in error \/ "quota" \in error

TimedOut(error) ==
    /\ ~RateLimited(error)
    /\ "timeout" \in error \/ "connection" \in error

AvailableMethods == {m \in fallback_methods : is_available(m)}

\* The step leaves a call of execute_with_fallback awaiting its strategy, or
\* ends it with the strategy's response and used_fallback = true.
StrategyAnswers ==
    \/ \E c \in DOMAIN calls :
          calls[c].pc = "primary" /\ calls'[c].pc = "strategy"
    \/ /\ result'.outcome = "returned"
       /\ result'.used_fallback
       /\ result'.path = "strategy"

\* C1: execute_with_fallback never propagates an exception to its caller:
\* no call ends by raising.
C1_NeverPropagates == result.outcome # "raised"

\* C2: every pair execute_with_fallback returns has used_fallback true
\* exactly when reasoning starts with the marker, and a call that ends in the
\* emergency synthesis returns such a pair.
C2_MarkerIffUsedFallback ==
    /\ result.outcome = "returned" =>
          (result.used_fallback <=> HasMarker(result.response))
    /\ result.path \in EmergencyPaths =>
          /\ result.outcome = "returned"
          /\ result.used_fallback
          /\ HasMarker(result.response)

\* C3: in every step of every interleaving of calls of execute_with_fallback
\* and should_use_fallback, the state does not go from EMERGENCY to FALLBACK
\* or PRIMARY nor from FALLBACK to PRIMARY, and it is PRIMARY after a step
\* that changes it only if the step is reset_to_primary.
C3_MonotonicState ==
    [][\/ reset_to_primary
       \/ /\ ~(state = EMERGENCY /\ state' \in {FALLBACK, PRIMARY})
          /\ ~(state = FALLBACK /\ state' = PRIMARY)
          /\ state' = PRIMARY => state = PRIMARY]_vars

\* A call entered in EMERGENCY has ended with its strategy's response and
\* the state is EMERGENCY still.
C3_Witness ==
    /\ state = EMERGENCY
    /\ result.path = "strategy"
    /\ result.outcome = "returned"

\* C4: in PRIMARY below the threshold and with a strategy to select, a
\* primary error classified rate limit or quota moves the state to FALLBACK
\* in that step, and the call goes on with the selected strategy and returns
\* its response with used_fallback = true.
C4_RateLimitFallsBack ==
    [][(/\ state = PRIMARY
        /\ error_count < api_error_threshold
        /\ AvailableMethods # {}
        /\ RateLimited(result'.error))
         => (state' = FALLBACK /\ StrategyAnswers)]_vars

\* C5: in PRIMARY and with a strategy to select, a primary error classified
\* timeout or connection within the window of the last one leaves the state
\* PRIMARY while it is the first or the second, and as the third moves the
\* state to FALLBACK with the call answered by the selected strategy.
C5_ThreeTimeouts ==
    [][(/\ state = PRIMARY
        /\ error_count < api_error_threshold
        /\ AvailableMethods # {}
        /\ TimedOut(result'.error))
         => IF error_count' < api_error_threshold
            THEN state' = PRIMARY
            ELSE state' = FALLBACK /\ StrategyAnswers]_vars

\* C6: the state becomes EMERGENCY only in a step that ends a call whose
\* selected strategy raised or that found no strategy available.
C6_EmergencyOnlyOnExhaustion ==
    [][(state # EMERGENCY /\ state' = EMERGENCY)
         => result'.path \in {"strategy_failed", "no_method"}]_vars

\* C7: with no registered strategy available, a call whose primary
\* operation failed or that was entered outside PRIMARY returns the emergency
\* response with confidence 0.1 and used_fallback = true, leaves the state
\* EMERGENCY and the usage statistics as they were.
C7_EmergencyWhenNoneAvailable ==
    [][(AvailableMethods = {} /\ result'.path \in {"reraised", "no_method"})
         => /\ result'.outcome = "returned"
            /\ result'.response.confidence_score = EMERGENCY_CONFIDENCE
            /\ result'.used_fallback
            /\ state' = EMERGENCY
            /\ fallback_usage_stats' = fallback_usage_stats]_vars

\* C8: every response execute_with_fallback returns has a confidence within
\* [0, 1] and non-empty recommendations and concerns.
C8_WellFormedResponse ==
    result.outcome = "returned" =>
        /\ result.response.confidence_score \in 0..10000
        /\ result.response.recommendations # <<>>
        /\ result.response.concerns # <<>>

\* C9: get_fallback_method returns the first of openai, rule_based,
\* cached_responses, hybrid that is registered and available, None exactly
\* when no registered strategy is available, and the same for every role.
C9_FirstAvailableInOrder ==
    result.path = "get_fallback_method" =>
        LET order == <<OPENAI, RULE_BASED, CACHED_RESPONSES, HYBRID>>
        IN /\ result.method = None <=> AvailableMethods = {}
           /\ result.method # None =>
                 \E i \in 1..4 :
                    /\ order[i] = result.method
                    /\ order[i] \in AvailableMethods
                    /\ \A j \in 1..(i - 1) : order[j] \notin AvailableMethods
           /\ \A agent_type \in AgentType :
                 get_fallback_method(agent_type) = result.method

\* The cached strategy was returned, past a registered OpenAI strategy that
\* is not available and ahead of an available hybrid.
C9_Witness ==
    /\ result.path = "get_fallback_method"
    /\ result.method = CACHED_RESPONSES
    /\ OPENAI \in fallback_methods
    /\ HYBRID \in AvailableMethods

\* C10: is_healthy is false exactly when the state is EMERGENCY or no
\* registered strategy is available; it is true in FALLBACK, and in PRIMARY
\* after a reset, when a strategy is available.
C10_HealthyIff ==
    /\ ~is_healthy <=> (state = EMERGENCY \/ AvailableMethods = {})
    /\ (state \in {FALLBACK, PRIMARY} /\ AvailableMethods # {}) => is_healthy

\* A strategy has failed, which left the state EMERGENCY, and after a reset
\* the state is PRIMARY and is_healthy true.
C10_Witness ==
    /\ state = PRIMARY
    /\ is_healthy
    /\ \E n \in DOMAIN fallback_usage_stats :
          fallback_usage_stats[n].successful_attempts
              < fallback_usage_stats[n].total_attempts

\* C11: reset_to_primary leaves state PRIMARY, error_count 0 and
\* last_error_time 0 and changes neither the usage statistics nor the
\* registry; called where it has just been called it changes nothing.
C11_ResetIdempotent ==
    [][reset_to_primary =>
         /\ state' = PRIMARY /\ error_count' = 0 /\ last_error_time' = 0
         /\ fallback_usage_stats' = fallback_usage_stats
         /\ registry' = registry
         /\ (state = PRIMARY /\ error_count = 0 /\ last_error_time = 0)
               => UNCHANGED <<state, error_count, last_error_time>>]_vars

\* A reset after the state had left PRIMARY with errors counted and a
\* strategy tried: the statistics are still there.
C11_Witness ==
    /\ state = PRIMARY /\ error_count = 0 /\ last_error_time = 0
    /\ result = NoResult
    /\ \E n \in DOMAIN fallback_usage_stats :
          fallback_usage_stats[n].total_attempts > 0

\* C12: should_use_fallback leaves state, error_count and last_error_time
\* as they were, whatever the state, the window and the error.
C12_DecisionIsPure ==
    [][result'.path = "should_use_fallback"
         => UNCHANGED <<state, error_count, last_error_time>>]_vars

\* C19: in PRIMARY a timeout or connection error makes the count the
\* previous one plus 1 if less than 60 seconds have passed since
\* last_error_time and 1 otherwise, records the time, and returns true with
\* the state FALLBACK exactly when the count reaches 3; an error of neither
\* vocabulary returns false and changes nothing.
C19_WindowedCount ==
    [][(result'.path = "should_use_fallback" /\ state = PRIMARY) =>
         IF TimedOut(result'.error)
         THEN /\ error_count' =
                    IF now - last_error_time < 60 THEN error_count + 1 ELSE 1
              /\ last_error_time' = now
              /\ result'.status = (error_count' >= 3)
              /\ state' = IF error_count' >= 3 THEN FALLBACK ELSE PRIMARY
         ELSE RateLimited(result'.error)
              \/ /\ result'.status = FALSE
                 /\ UNCHANGED <<state, error_count, last_error_time>>]_vars

\* The third timeout within the window, some time after the first, has
\* returned true and left the state FALLBACK.
C19_Witness ==
    /\ result.path = "should_use_fallback"
    /\ TimedOut(result.error)
    /\ result.status = TRUE
    /\ state = FALLBACK /\ error_count = 3
    /\ now > ErrorWindow

\* C13: get_fallback_stats, get_health_status and is_healthy leave the
\* state, error_count, last_error_time and the stored usage statistics, keys
\* and counters, as they were.
C13_StatusIsReadOnly ==
    [][result'.path \in {"get_fallback_stats", "get_health_status", "is_healthy"}
         => UNCHANGED <<state, error_count, last_error_time,
                        fallback_usage_stats>>]_vars

\* The scores the primary path returns, and the scores each source of
\* substitute responses gives the response it builds.
PrimaryScores ==
    {out.response.confidence_score :
        out \in {o \in UNION {primary_analysis[a] : a \in AgentType} :
                    ~o.raised}}

SourceScores(source) ==
    CASE source = OPENAI ->
            {Scaled(d.confidence_score) :
                d \in UNION {_parse_openai_response(a) : a \in AgentType}}
      [] source = RULE_BASED ->
            {Scaled(d.confidence_score) :
                d \in UNION {_generate_from_templates(a, i) :
                                a \in AgentType, i \in Ideas}}
      [] source = CACHED_RESPONSES ->
            {Scaled(_generate_from_pattern(a, i).confidence_score) :
                a \in AgentType, i \in Ideas}
      [] source = EMERGENCY -> {EMERGENCY_CONFIDENCE}

\* C14: a response a strategy returns has a score below every score of the
\* primary path, and along the chain secondary provider, rule-based,
\* cached, emergency no source gives a higher score than a source before it.
C14_ConfidenceNeverIncreases ==
    LET chain == <<OPENAI, RULE_BASED, CACHED_RESPONSES, EMERGENCY>>
    IN /\ (result.path = "generate_response" /\ result.outcome = "returned")
             => \A p \in PrimaryScores : result.response.confidence_score < p
       /\ \A s \in SourceScores(EMERGENCY) : \A p \in PrimaryScores : s < p
       /\ \A i, j \in 1..4 :
             i < j => \A near \in SourceScores(chain[i]),
                         far \in SourceScores(chain[j]) : far <= near

\* C15: a response the OpenAI, rule-based or cached strategy returns has the
\* score get_confidence_score() of that strategy times the penalty.
C15_BaselineTimesPenalty ==
    (/\ result.path = "generate_response"
     /\ result.method \in {OPENAI, RULE_BASED, CACHED_RESPONSES}
     /\ result.outcome = "returned")
      => result.response.confidence_score
            = Scaled(get_confidence_score(result.method))

\* C16: _combine_responses given the responses of two strategies returns a
\* response with at most 3 recommendations and 2 concerns, none repeated,
\* each from one of the two, and the average of their two scores times the
\* penalty as score.
C16_HybridCombination ==
    result.path = "_combine_responses" =>
        LET first == result.status[1]
            second == result.status[2]
            made == result.response
        IN /\ result.outcome = "returned"
           /\ Len(made.recommendations) <= 3
           /\ Len(made.concerns) <= 2
           /\ Cardinality(Range(made.recommendations))
                 = Len(made.recommendations)
           /\ Cardinality(Range(made.concerns)) = Len(made.concerns)
           /\ Range(made.recommendations)
                 \subseteq Range(first.recommendations)
                             \cup Range(second.recommendations)
           /\ Range(made.concerns)
                 \subseteq Range(first.concerns) \cup Range(second.concerns)
           /\ made.confidence_score
                 = Scaled((first.confidence_score + second.confidence_score)
                              \div 2)


\* C18: BaseAgent.analyze returns a typed response and raises nothing when
\* its primary call fails: every call of a role agent that ends is made
\* with one of the six role identifiers, and ends by returning a response
\* unless its primary operation itself returned.
C18_AnalyzeAlwaysAnswers ==
    (result.outcome # "-" /\ \E c \in DOMAIN calls : c.via = "analyze") =>
       /\ result.agent_type \in AgentType
       /\ result.path # "primary" =>
             /\ result.outcome = "returned"
             /\ result.response.agent_type \in AgentType


\* C20: a call of execute_with_fallback made while the state is not PRIMARY
\* and some strategy is available does not invoke the primary operation and leaves error_count and
\* last_error_time alone; it awaits the strategy get_fallback_method
\* selects or ends at once, and when it ends it returns a pair with
\* used_fallback true, with the marker and the state unchanged if the
\* strategy's response is what it returns.
C20_FallbackSkipsPrimary ==
    [][\A c \in DOMAIN calls :
          (/\ state # PRIMARY
           /\ AvailableMethods # {}
           /\ calls[c].pc = "idle"
           /\ \/ calls'[c].pc # "idle"
              \/ calls' = calls /\ result'.agent_type = Handed(c)) =>
             /\ calls'[c].pc # "primary"
             /\ UNCHANGED <<error_count, last_error_time>>
             /\ calls'[c].pc = "strategy" =>
                   calls'[c].method = get_fallback_method(Handed(c))
             /\ calls'[c].pc = "idle" =>
                   /\ result'.outcome = "returned"
                   /\ result'.used_fallback
                   /\ result'.path = "strategy" =>
                         /\ HasMarker(result'.response)
                         /\ state' = state]_vars


\* C17: the batch never hangs and never passes off a partial result as
\* complete: once the deadline is reached the batch can end, when it raises
\* for the timeout no task is left pending, and a list it returns holds
\* exactly one response for each of the six agents.
C17_BatchCompleteOrTimeout ==
    /\ (BatchPending /\ now >= Deadline) =>
          ENABLED (BatchReturns \/ JointTimeoutExpires)
    /\ (result.path = "_run_all_agents" /\ result.outcome = "raised") =>
          Pending = {}
    /\ (result.path = "_run_all_agents" /\ result.outcome = "returned") =>
          /\ Len(result.status) = Cardinality(AgentType)
          /\ Range(result.status) = AgentType


\* C29: in every state reachable by should_use_fallback, execute_with_fallback
\* and reset_to_primary calls, error_count lies between 0 and the threshold,
\* and once it has reached the threshold the state is not PRIMARY.
C29_ErrorCountBounded ==
    /\ error_count \in 0..api_error_threshold
    /\ error_count >= api_error_threshold => state # PRIMARY

\* The count has reached the threshold and a call has ended since.
C29_Witness ==
    /\ error_count = api_error_threshold
    /\ state # PRIMARY
    /\ result.outcome # "-"


\* C30: in an orchestrator built by _initialize_fallback_methods the
\* rule-based strategy is registered and available, and get_fallback_method
\* returns the secondary-provider strategy when that strategy's client was
\* set up at construction and the rule-based strategy otherwise: never
\* null, the cached-pattern or the hybrid strategy.  The strategy a call
\* awaits is the one selected so.
C30_BuiltSelection ==
    /\ RULE_BASED \in fallback_methods
    /\ is_available(RULE_BASED)
    /\ result.path = "get_fallback_method" =>
          /\ result.method = (IF client THEN OPENAI ELSE RULE_BASED)
          /\ result.method \notin {None, CACHED_RESPONSES, HYBRID}
    /\ \A c \in DOMAIN calls :
          calls[c].pc = "strategy" => calls[c].method = OPENAI /\ client
    /\ \A n \in DOMAIN fallback_usage_stats :
          n = ClassName(IF client THEN OPENAI ELSE RULE_BASED)

\* get_fallback_method has returned the secondary-provider strategy after a
\* call that left the state EMERGENCY.
C30_Witness ==
    /\ result.path = "get_fallback_method"
    /\ result.method = OPENAI
    /\ state = EMERGENCY
    /\ fallback_usage_stats # <<>>


\* The wrapped strategies of a hybrid call that returned normally.
Succeeded(attempts) == SelectSeq(attempts, LAMBDA a : ~a.out.raised)

C25_SingleSourceCombined ==
    (/\ result.path = "HybridFallback.generate_response"
     /\ Len(Succeeded(result.status)) = 1) =>
        LET only == Succeeded(result.status)[1].out.response
        IN /\ result.outcome = "returned"
           /\ result.response.reasoning
                 = <<"Combined from", "1", "fallback sources">>
           /\ result.response.confidence_score
                 = Scaled(only.confidence_score)


\* C26: when the provider call succeeds and its output cannot be parsed,
\* the primary closure builds a response of lower confidence than a parsed
\* one instead of raising, and the step in which analyze hands it on
\* returns it with used_fallback false and without the marker, invokes no
\* strategy and leaves the state and the usage statistics alone.
C26_ParseFailureStaysLocal ==
    [][/\ \A role \in AgentType, d \in LocallyBuilt :
             /\ ~analysis_model(role, d).raised
             /\ analysis_model(role, d) \in primary_analysis[role]
             /\ d.confidence_score < 8000
       /\ (/\ result'.path = "primary"
           /\ \E d \in LocallyBuilt :
                 result'.response = analysis_model(result'.response.agent_type,
                                                   d).response) =>
             /\ result'.outcome = "returned"
             /\ ~result'.used_fallback
             /\ ~HasMarker(result'.response)
             /\ \A c \in DOMAIN calls : calls'[c].pc # "strategy"
                                             \/ calls[c].pc = "strategy"
             /\ UNCHANGED <<state, fallback_usage_stats>>]_vars

\* A role agent has returned the response built when the parser call
\* raised, while another call had moved the state to EMERGENCY.
C26_Witness ==
    /\ result.path = "primary"
    /\ result.outcome = "returned"
    /\ result.response.reasoning = <<"Error in processing">>
    /\ \E c \in DOMAIN calls : c.via = "analyze"
    /\ state = EMERGENCY


\* C27: the local retry of the provider call depends on the error kind: a
\* first attempt that fails with a capacity error (rate limit, quota) is
\* the only attempt, and its failure is what the orchestrator is given,
\* while attempts that fail with timeout or connection errors are repeated
\* up to the cap of 3.
C27_RetryByErrorKind ==
    result.path = "retry_analysis" =>
        LET replies == result.status.replies
            attempt_number == result.status.attempt_number
        IN /\ attempt_number \in 1..stop_after_attempt
           /\ RateLimited(replies[1]) =>
                 /\ attempt_number = 1
                 /\ result.outcome = "raised"
           /\ (\A i \in 1..stop_after_attempt : TimedOut(replies[i])) =>
                 /\ attempt_number = stop_after_attempt
                 /\ result.outcome = "raised"


\* C23: when the primary operation of a call returns normally, the call
\* returns that very response with used_fallback false and sets error_count
\* to 0, and the state, last_error_time and the usage statistics are what
\* they were, also when another call has moved the state away from PRIMARY
\* in the meantime.
C23_PrimarySuccessFrame ==
    [][\A c \in DOMAIN calls :
          (/\ calls[c].pc = "primary"
           /\ calls'[c].pc # "primary"
           /\ result'.error = NoError) =>
             /\ result'.outcome = "returned"
             /\ ~result'.used_fallback
             /\ Returned(result'.response) \in primary_analysis[c.role]
             /\ ~HasMarker(result'.response)
             /\ error_count' = 0
             /\ UNCHANGED <<state, last_error_time, fallback_usage_stats>>]_vars

\* A primary operation has returned after the error count had reached the
\* threshold and moved the state to FALLBACK.
C23_Witness ==
    /\ result.path = "primary"
    /\ result.outcome = "returned"
    /\ state = FALLBACK
    /\ error_count = 0
    /\ last_error_time > 0


\* C21: a call invokes the primary operation at most once, when it starts,
\* awaits generate_response of at most one strategy, after which it ends,
\* and the step that ends it runs the emergency synthesis at most once.
C21_AtMostOneOfEach ==
    [][/\ \A c \in DOMAIN calls :
             /\ (calls'[c].pc = "primary" /\ calls[c].pc # "primary") =>
                   calls[c].pc = "idle"
             /\ (calls[c].pc = "primary" /\ calls'[c] # calls[c]) =>
                   calls'[c].pc \in {"strategy", "idle"}
             /\ (calls[c].pc = "strategy" /\ calls'[c] # calls[c]) =>
                   calls'[c].pc = "idle"
       /\ result'.outcome \in {"returned", "raised"} =>
             result'.status \in {0, 1}]_vars

\* The usage statistics entry of the strategy class name, or one without
\* attempts if there is none.
UsageOf(stats, name) ==
    IF name \in DOMAIN stats
    THEN [total_attempts |-> stats[name].total_attempts,
          successful_attempts |-> stats[name].successful_attempts]
    ELSE [total_attempts |-> 0, successful_attempts |-> 0]

\* C22: when the strategy a call selected raises, the call returns the
\* emergency response (score 0.1, used_fallback true) without raising and
\* the state becomes EMERGENCY; the failed strategy's statistics gain one
\* attempt and no successful attempt, and no other strategy's change.
C22_StrategyFailureToEmergency ==
    [][result'.path = "strategy_failed" =>
          LET failed == ClassName(get_fallback_method(result'.agent_type))
          IN /\ result'.outcome = "returned"
             /\ result'.used_fallback
             /\ result'.response.confidence_score = EMERGENCY_CONFIDENCE
             /\ state' = EMERGENCY
             /\ DOMAIN fallback_usage_stats'
                   = DOMAIN fallback_usage_stats \cup {failed}
             /\ UsageOf(fallback_usage_stats', failed).total_attempts
                   = UsageOf(fallback_usage_stats, failed).total_attempts + 1
             /\ UsageOf(fallback_usage_stats', failed).successful_attempts
                   = UsageOf(fallback_usage_stats, failed).successful_attempts
             /\ \A n \in DOMAIN fallback_usage_stats :
                   n # failed =>
                      fallback_usage_stats'[n] = fallback_usage_stats[n]]_vars


\* C28: with calls interleaving at their awaits no counter update is lost:
\* every step in which a generate_response the orchestrator invoked ends
\* adds one to total_attempts of that strategy, and one to its
\* successful_attempts exactly if it returned normally; no other step
\* changes a counter, and 0 <= successful_attempts <= total_attempts
\* throughout.
C28_NoLostUpdate ==
    [][/\ IF result'.path \in {"strategy", "strategy_failed"}
          THEN LET name == ClassName(get_fallback_method(result'.agent_type))
                   before == UsageOf(fallback_usage_stats, name)
                   after == UsageOf(fallback_usage_stats', name)
               IN /\ name \in DOMAIN fallback_usage_stats'
                  /\ after.total_attempts = before.total_attempts + 1
                  /\ after.successful_attempts
                        = before.successful_attempts
                            + (IF result'.path = "strategy" THEN 1 ELSE 0)
                  /\ \A n \in DOMAIN fallback_usage_stats' \ {name} :
                        /\ n \in DOMAIN fallback_usage_stats
                        /\ fallback_usage_stats'[n] = fallback_usage_stats[n]
          ELSE fallback_usage_stats' = fallback_usage_stats
       /\ DOMAIN fallback_usage_stats \subseteq DOMAIN fallback_usage_stats'
       /\ \A n \in DOMAIN fallback_usage_stats' :
             /\ 0 <= fallback_usage_stats'[n].successful_attempts
             /\ fallback_usage_stats'[n].successful_attempts
                   <= fallback_usage_stats'[n].total_attempts]_vars

\* A strategy has been attempted twice, once with success, by calls of
\* which one still awaits its strategy.
C28_Witness ==
    /\ \E n \in DOMAIN fallback_usage_stats :
          /\ fallback_usage_stats[n].total_attempts = 2
          /\ fallback_usage_stats[n].successful_attempts = 1
    /\ \E c \in DOMAIN calls : calls[c].pc = "strategy"
    /\ result.path \in {"strategy", "strategy_failed"}

====
